---- MODULE Spec2Model ----
(***************************************************************************)
(* The football scouting pipeline: one process that reads its API key,     *)
(* collects the operator's requirements, and drives three model-backed     *)
(* stages (Retrieve, Score, Rank), each wrapped in a retry loop with       *)
(* exponential backoff.  Two entry points are modelled side by side:       *)
(*   variant = "adk"     football_system_adk.py  (run_agent_safe, main)    *)
(*   variant = "direct"  football_system.py      (run_step, main)          *)
(* Text read from the operator is a sequence of one-character strings, so  *)
(* that str.strip() and str.lower() are computed; text produced by the     *)
(* backend is a TLA+ string, joined with \o.                               *)
(***************************************************************************)
EXTENDS Integers, Sequences, FiniteSets, TLC

VARIABLES
    variant,        \* which entry point this process runs
    environ,        \* os.environ restricted to the two key variables
    loaded,         \* whether the backend library came up at module level
    pc,             \* position of the process
    exit_status,    \* process exit status once pc = "exit"
    prompts,        \* number of input() calls made so far
    invalid,        \* number of rejected discriminant answers so far
    answer,         \* what the last input() call gave: a line, or EOF
    supplied,       \* the accepted answers: the discriminant, then the fields
    requirements,   \* collect_user_requirements' local mapping
    user_reqs,      \* main's user_reqs (the mapping the collector returned)
    stage,          \* the stage whose run_agent_safe / run_step call is active
    attempt,        \* the retry loop's attempt variable
    nreq,           \* backend requests issued by the active stage call
    waits,          \* the time.sleep durations of the active stage call
    request,        \* the backend request in flight / last issued, with the
                    \* attempt that issued it
    response,       \* what that request yielded, until main takes the result
    error_str,      \* str(e) of the error that request raised, while handled
    prompt,         \* the prompt passed to the active stage call
    result,         \* the value the last stage call returned
    data_out,       \* main's data_out / data_output
    score_out,      \* main's score_out / scored_output
    final_out,      \* main's final_out / final_output
    events,         \* log of stage invocations and returns
    diag,           \* the error the active / last stage call printed
    final_printed   \* the FINAL RECOMMENDATIONS block has been printed

vars == <<variant, environ, loaded, pc, exit_status, prompts, invalid, answer, supplied,
          requirements, user_reqs, stage, attempt, nreq, waits,
          request, response, error_str, prompt, result, data_out, score_out, final_out, events,
          diag, final_printed>>

-----------------------------------------------------------------------------
(* Bounds of the model *)

MaxInvalid == 1     \* rejected discriminant answers offered in one run
MaxParts == 1       \* parts carried by one backend response
MaxEvents == 2      \* events (ADK) of one backend response

-----------------------------------------------------------------------------
(* Values *)

None == "<None>"            \* Python's None, where backend text may stand
NoKey == <<"<None>">>       \* Python's None, where an environment value may stand
Unset == "<unset>"          \* a local variable not assigned yet
EmptyMap == << >>           \* {} : the mapping with no key
EOF == <<"<EOF>">>          \* input() raising EOFError
NoLine == <<"<none>">>      \* no input() call made yet
NoResponse == << <<[none |-> TRUE]>> >>    \* no response at hand
NoError == {"<none>"}       \* no error at hand

Variants == {"adk", "direct"}

Whitespace == {" ", "\t"}

player == <<"p", "l", "a", "y", "e", "r">>
coach == <<"c", "o", "a", "c", "h">>

\* lines the operator may type at the discriminant prompt
ChoiceLines ==
    { player, coach,
      <<" ", "P", "l", "a", "y", "e", "r", " ">>,
      << >>, <<" ">>,
      <<"s", "c", "o", "u", "t">> }

\* lines the operator may type at a field prompt
FieldLines ==
    { <<"F", "w">>, <<" ", "2", "0", " ", "2", "5", "\t">> }

-----------------------------------------------------------------------------
(* str.strip() and str.lower() *)

RECURSIVE lstrip(_)
lstrip(s) ==
    IF s # << >> /\ Head(s) \in Whitespace THEN lstrip(Tail(s)) ELSE s

RECURSIVE rstrip(_)
rstrip(s) ==
    IF s # << >> /\ s[Len(s)] \in Whitespace
    THEN rstrip(SubSeq(s, 1, Len(s) - 1))
    ELSE s

\* (variation: the answer stored as typed)
strip_nothing(s) == s

strip(s) == rstrip(lstrip(s))

lower_char(c) ==
    CASE c = "P" -> "p" [] c = "L" -> "l" [] c = "A" -> "a" [] c = "Y" -> "y"
      [] c = "E" -> "e" [] c = "R" -> "r" [] c = "C" -> "c" [] c = "O" -> "o"
      [] c = "H" -> "h" [] c = "F" -> "f" [] c = "W" -> "w" [] c = "S" -> "s"
      [] c = "U" -> "u" [] c = "T" -> "t" [] OTHER -> c

lower(s) == [i \in 1..Len(s) |-> lower_char(s[i])]

-----------------------------------------------------------------------------
(* Module startup: the API key *)

\* os.getenv(name): None when the variable is not set
getenv(env, name) == IF name \in DOMAIN env THEN env[name] ELSE NoKey

\* `not api_key`
Falsy(v) == v = NoKey \/ v = << >>

\* variation: GEMINI_API_KEY is not consulted
api_key_of_no_fallback(env) == getenv(env, "GOOGLE_API_KEY")

\* the key the startup code settles on, falsy when there is none
api_key_of(env) ==
    IF ~Falsy(getenv(env, "GOOGLE_API_KEY"))
    THEN getenv(env, "GOOGLE_API_KEY")
    ELSE getenv(env, "GEMINI_API_KEY")

\* environments the process may be started in
KeyValues == { << >>, <<" ", "k", " ">> }
LegacyValues == { << >>, <<"k">> }
Environments ==
    { EmptyMap }
      \cup { ("GOOGLE_API_KEY" :> g) : g \in KeyValues }
      \cup { ("GEMINI_API_KEY" :> l) : l \in LegacyValues }
      \cup { ("GOOGLE_API_KEY" :> g) @@ ("GEMINI_API_KEY" :> l) :
                g \in KeyValues, l \in LegacyValues }


\* the environment the startup code leaves behind
clean_environ(env) ==
    [n \in (DOMAIN env \cup {"GOOGLE_API_KEY"}) \ {"GEMINI_API_KEY"} |->
        IF n = "GOOGLE_API_KEY" THEN strip(api_key_of(env)) ELSE env[n]]

-----------------------------------------------------------------------------
(* collect_user_requirements *)

Tokens == {player, coach}

\* variation: the coach branch asks for the player's position, not the focus
FieldKeys_coach_position(choice) ==
    IF choice = player
    THEN <<"position", "age_range", "experience", "style">>
    ELSE <<"style", "experience", "age_range", "position">>

\* the keys filled by the four field prompts, in the order they are asked
FieldKeys(choice) ==
    IF choice = player
    THEN <<"position", "age_range", "experience", "style">>
    ELSE <<"style", "experience", "age_range", "focus">>

\* variation: EOFError is taken for one more invalid answer
ChoiceOutcome_adk_eof_again(line) ==
    IF line # EOF /\ lower(strip(line)) \in Tokens THEN "break" ELSE "again"

\* variation: any line that is not blank is taken for a discriminant
ChoiceOutcome_adk_any_line(line) ==
    IF line = EOF THEN "exit"
    ELSE IF strip(line) # << >> THEN "break"
    ELSE "again"

\* what the discriminant loop does with one answer: "break", "exit" or "again"
ChoiceOutcome_adk(line) ==
    IF line = EOF THEN "exit"
    ELSE IF lower(strip(line)) \in Tokens THEN "break"
    ELSE "again"

ChoiceOutcome_direct(line) ==
    LET choice == IF line = EOF THEN << >> ELSE lower(strip(line))
    IN  IF choice \in Tokens THEN "break"
        ELSE IF choice = << >> THEN "exit"
        ELSE "again"

ChoiceOutcome(v, line) ==
    IF v = "adk" THEN ChoiceOutcome_adk(line) ELSE ChoiceOutcome_direct(line)

-----------------------------------------------------------------------------
(* The backend: responses and errors *)

\* a part of a response: one that bears text, or one that bears none
\* (part.text is None: a function call, inline data, ...)
NonTextPart == [function_call |-> TRUE]
PartTexts == {"", "a"}
Parts == [text : PartTexts] \cup {NonTextPart}

\* part.text
text_of(part) == IF "text" \in DOMAIN part THEN part.text ELSE None

\* truth value of a Python string-or-None
Truthy(t) == t # None /\ t # ""

PartSeqs == UNION { [1..n -> Parts] : n \in 0..MaxParts }

RECURSIVE CountParts(_)
CountParts(groups) ==
    IF groups = << >> THEN 0 ELSE Len(Head(groups)) + CountParts(Tail(groups))

\* what a successful request yields: for the ADK runner the events of the
\* run, each with the parts of its content (none when the event has no
\* content); for generate_content the candidates of the response, each with
\* the parts of its content.  generate_content is called without
\* candidate_count, so its response carries at most one candidate.
Responses_adk ==
    { r \in UNION { [1..n -> PartSeqs] : n \in 0..MaxEvents } :
        CountParts(r) <= MaxParts }

Responses_direct == { r \in Responses_adk : Len(r) <= 1 }

\* "".join(p.text for p in parts if p.text)
RECURSIVE join_texts(_)
join_texts(parts) ==
    IF parts = << >> THEN ""
    ELSE (IF Truthy(text_of(Head(parts))) THEN text_of(Head(parts)) ELSE "")
            \o join_texts(Tail(parts))

\* the loop over events: every truthy part.text of every event, in order
RECURSIVE join_events(_)
join_events(evs) ==
    IF evs = << >> THEN "" ELSE join_texts(Head(evs)) \o join_events(Tail(evs))

NO_RESPONSE_adk == "No response generated."
NO_RESPONSE_direct == "No text response generated."

\* run_agent_safe, what the try block returns for the events of a run
extract_adk(evs) ==
    LET joined == join_events(evs)
    IN  IF ~Truthy(joined) THEN NO_RESPONSE_adk ELSE joined

\* response.text of the google.genai response: the texts of the first
\* candidate's text parts joined, None when it has no part or no text part
response_text(cands) ==
    IF cands = << >> \/ cands[1] = << >> THEN None
    ELSE IF \A i \in 1..Len(cands[1]) : text_of(cands[1][i]) = None THEN None
    ELSE join_texts(cands[1])

\* run_step, what the try block returns for a response
extract_direct(cands) ==
    IF Truthy(response_text(cands)) THEN response_text(cands)
    ELSE IF cands # << >> /\ cands[1] # << >> THEN join_texts(cands[1])
    ELSE NO_RESPONSE_direct

\* every response a request may yield, with the value returned for it
Outcomes_adk == { <<r, extract_adk(r)>> : r \in Responses_adk }
Outcomes_direct == { <<r, extract_direct(r)>> : r \in Responses_direct }
Outcomes(v) == IF v = "adk" THEN Outcomes_adk ELSE Outcomes_direct

\* str(e) of an error raised by a request, as the set of markers it carries
Markers == {"429", "RESOURCE_EXHAUSTED", "404", "not found"}
Errors == SUBSET Markers

\* (variation: a missing model waited out like a rate limit)
classify_adk_retry_404(msg) ==
    IF "429" \in msg \/ "RESOURCE_EXHAUSTED" \in msg THEN "transient"
    ELSE IF "404" \in msg /\ "not found" \in msg THEN "transient"
    ELSE "other"

\* (variation: the 404 test comes before the rate-limit test)
classify_adk_404_first(msg) ==
    IF "404" \in msg /\ "not found" \in msg THEN "model_missing"
    ELSE IF "429" \in msg \/ "RESOURCE_EXHAUSTED" \in msg THEN "transient"
    ELSE "other"

\* the except branch taken: "transient", "model_missing" or "other"
classify_adk(msg) ==
    IF "429" \in msg \/ "RESOURCE_EXHAUSTED" \in msg THEN "transient"
    ELSE IF "404" \in msg /\ "not found" \in msg THEN "model_missing"
    ELSE "other"

classify_direct(msg) ==
    IF "429" \in msg \/ "RESOURCE_EXHAUSTED" \in msg THEN "transient"
    ELSE "other"

classify(v, msg) ==
    IF v = "adk" THEN classify_adk(msg) ELSE classify_direct(msg)

-----------------------------------------------------------------------------
(* The retry loop *)

\* (variation: one attempt fewer)
max_retries_short == 5 - 1

max_retries == 5
base_delay == 10

\* (variation: a linear backoff, base_delay * (attempt + 1))
wait_time_linear(k) == base_delay * (k + 1)

\* base_delay * (2 ** attempt)
wait_time(k) == base_delay * (2 ^ k)

-----------------------------------------------------------------------------
(* main: the stages and their prompts *)

Stages == {"Retrieve", "Score", "Rank"}

\* (variation: the first two calls exchanged)
stage_of_call_swapped(i) ==
    CASE i = 1 -> "Score" [] i = 2 -> "Retrieve" [] i = 3 -> "Rank"

\* the stage run by main's first, second and third stage call
stage_of_call(i) ==
    CASE i = 1 -> "Retrieve" [] i = 2 -> "Score" [] i = 3 -> "Rank"

\* the search capability a stage's requests carry: the data agent is built
\* with tools=[google_search] and run_step gets tools= for step 2 only
\* variation: every agent is built with the search tool
tools_adk_every_agent(s) == {"google_search"}

tools_adk(s) == IF s = "Retrieve" THEN {"google_search"} ELSE {}
tools_direct(s) == IF s = "Retrieve" THEN {"google_search"} ELSE {}
tools_of(v, s) == IF v = "adk" THEN tools_adk(s) ELSE tools_direct(s)

\* the f-strings, as the template and the values it embeds
search_prompt(reqs) ==
    IF reqs["type"] = player
    THEN [template |-> "find_players",
          embeds |-> <<reqs["position"], reqs["age_range"],
                       reqs["experience"], reqs["style"]>>]
    ELSE [template |-> "find_coaches",
          embeds |-> <<reqs["style"], reqs["experience"],
                       reqs["age_range"], reqs["focus"]>>]

\* variation: the scoring prompt is built from the discriminant alone
scoring_prompt_type_only(reqs, data) ==
    [template |-> "score", requirements |-> ("type" :> reqs["type"]),
     candidates |-> data]

\* variation: the scoring prompt is built without the retrieved text
scoring_prompt_without_data(reqs, data) ==
    [template |-> "score", requirements |-> reqs, candidates |-> ""]

scoring_prompt(reqs, data) ==
    [template |-> "score", requirements |-> reqs, candidates |-> data]

ranking_prompt(scored) == [template |-> "rank", candidates |-> scored]

\* (variation: the check after Retrieve left out)
aborts_adk_score_only(s, out) == s = "Score" /\ ~Truthy(out)

\* (variation: the check after Score left out)
aborts_adk_retrieve_only(s, out) == s = "Retrieve" /\ ~Truthy(out)

\* `if not data_out: return` / `if not score_out: return`
\* variation: the sentinel is taken for a failure too
aborts_adk_on_sentinel(s, out) ==
    s \in {"Retrieve", "Score"} /\ (~Truthy(out) \/ out = NO_RESPONSE_adk)

aborts_adk(s, out) == s \in {"Retrieve", "Score"} /\ ~Truthy(out)
\* football_system.main returns nowhere before its end
aborts_direct(s, out) == FALSE
aborts(v, s, out) == IF v = "adk" THEN aborts_adk(s, out) ELSE aborts_direct(s, out)

-----------------------------------------------------------------------------
Init ==
    /\ variant \in Variants
    /\ environ \in Environments
    /\ loaded = "no"
    /\ pc = "startup"
    /\ exit_status = Unset
    /\ prompts = 0
    /\ invalid = 0
    /\ answer = NoLine
    /\ supplied = << >>
    /\ requirements = EmptyMap
    /\ user_reqs = EmptyMap
    /\ stage = "none"
    /\ attempt = 0
    /\ nreq = 0
    /\ waits = << >>
    /\ request = EmptyMap
    /\ response = NoResponse
    /\ error_str = NoError
    /\ prompt = EmptyMap
    /\ result = Unset
    /\ data_out = Unset
    /\ score_out = Unset
    /\ final_out = Unset
    /\ events = << >>
    /\ diag = "none"
    /\ final_printed = FALSE

collector_vars == <<prompts, invalid, answer, supplied, requirements, user_reqs>>
stage_vars == <<stage, attempt, nreq, waits, request, response, error_str,
                prompt, result,
                events, diag>>
main_vars == <<data_out, score_out, final_out, final_printed>>

\* sys.exit(code)
Exit(code) == pc' = "exit" /\ exit_status' = code

\* module level: settle the API key or leave with status 1
Startup ==
    /\ pc = "startup"
    /\ IF Falsy(api_key_of(environ))
       THEN Exit(1) /\ UNCHANGED environ
       ELSE /\ environ' = clean_environ(environ)
            /\ pc' = "load"
            /\ UNCHANGED exit_status
    /\ UNCHANGED <<variant, loaded, collector_vars, stage_vars, main_vars>>

\* module level, after the key: the google.adk imports (adk) or the
\* genai.Client construction (direct) succeed, or the process leaves with
\* status 1
LoadBackend ==
    /\ pc = "load"
    /\ \E ok \in BOOLEAN :
         IF ok
         THEN loaded' = "yes" /\ pc' = "choice" /\ UNCHANGED exit_status
         ELSE loaded' = "failed" /\ Exit(1)
    /\ UNCHANGED <<variant, environ, collector_vars, stage_vars, main_vars>>

\* one pass of the discriminant loop: input(), then break, exit or loop
ReadChoice ==
    /\ pc = "choice"
    /\ \E line \in ChoiceLines \cup {EOF} :
         LET outcome == ChoiceOutcome(variant, line)
         IN  /\ outcome = "again" => invalid < MaxInvalid
             /\ prompts' = prompts + 1
             /\ answer' = line
             /\ CASE outcome = "break" ->
                       /\ requirements' = ("type" :> lower(strip(line)))
                       /\ supplied' = <<line>>
                       /\ pc' = "fields"
                       /\ UNCHANGED <<exit_status, invalid>>
                  [] outcome = "exit" ->
                       /\ Exit(1)
                       /\ UNCHANGED <<requirements, supplied, invalid>>
                  [] OTHER ->
                       /\ invalid' = invalid + 1
                       /\ UNCHANGED <<pc, exit_status, requirements, supplied>>
    /\ UNCHANGED <<variant, environ, loaded, user_reqs, stage_vars, main_vars>>

\* variation: end-of-input at a field prompt is taken for an empty answer
ReadField_eof_as_empty ==
    /\ pc = "fields"
    /\ \E line \in FieldLines \cup {EOF} :
         LET keys == FieldKeys(requirements["type"])
             key == keys[Len(supplied)]
             text == IF line = EOF THEN << >> ELSE strip(line)
         IN  /\ prompts' = prompts + 1
             /\ answer' = line
             /\ supplied' = Append(supplied, line)
             /\ requirements' = (key :> text) @@ requirements
             /\ IF Len(supplied) = Len(keys)
                THEN pc' = "main" /\ user_reqs' = requirements'
                ELSE UNCHANGED <<pc, user_reqs>>
             /\ UNCHANGED exit_status
    /\ UNCHANGED <<variant, environ, loaded, invalid, stage_vars, main_vars>>

\* one field prompt: input().strip() stored under the next key; EOFError
\* leaves with status 1; after the fourth field the mapping is returned
ReadField ==
    /\ pc = "fields"
    /\ \E line \in FieldLines \cup {EOF} :
         LET keys == FieldKeys(requirements["type"])
             key == keys[Len(supplied)]
         IN  /\ prompts' = prompts + 1
             /\ answer' = line
             /\ IF line = EOF
                THEN /\ Exit(1)
                     /\ UNCHANGED <<supplied, requirements, user_reqs>>
                ELSE /\ supplied' = Append(supplied, line)
                     /\ requirements' = (key :> strip(line)) @@ requirements
                     /\ IF Len(supplied) = Len(keys)
                        THEN pc' = "main" /\ user_reqs' = requirements'
                        ELSE UNCHANGED <<pc, user_reqs>>
                     /\ UNCHANGED exit_status
    /\ UNCHANGED <<variant, environ, loaded, invalid, stage_vars, main_vars>>

\* variation: the retry state is kept from one stage call to the next
Invoke_shared_retry_state(s, p) ==
    /\ stage' = s
    /\ prompt' = p
    /\ UNCHANGED <<attempt, nreq, waits>>
    /\ diag' = "none"
    /\ response' = NoResponse
    /\ error_str' = NoError
    /\ events' = Append(events, <<"invoke", s>>)
    /\ pc' = "loop"

\* run_agent_safe(agent, prompt, step_name) / run_step(step_name, prompt, ...)
\* is entered: the step name is printed and the retry loop starts
Invoke(s, p) ==
    /\ stage' = s
    /\ prompt' = p
    /\ attempt' = 0
    /\ nreq' = 0
    /\ waits' = << >>
    /\ diag' = "none"
    /\ response' = NoResponse
    /\ error_str' = NoError
    /\ events' = Append(events, <<"invoke", s>>)
    /\ pc' = "loop"

\* the stage call returns `value` to main
Return(value) ==
    /\ result' = value
    /\ events' = Append(events, <<"return", stage>>)
    /\ pc' = "returned"

\* variation: main leaves with status 1 when the last stage call failed
Finish_status_of_failure ==
    /\ Exit(IF result = "" THEN 1 ELSE 0)
    /\ attempt' = 0
    /\ nreq' = 0
    /\ waits' = << >>
    /\ response' = NoResponse
    /\ error_str' = NoError
    /\ UNCHANGED <<stage, prompt, events, diag>>

\* main returns: the process ends with status 0, the last call's frame gone
Finish ==
    /\ Exit(0)
    /\ attempt' = 0
    /\ nreq' = 0
    /\ waits' = << >>
    /\ response' = NoResponse
    /\ error_str' = NoError
    /\ UNCHANGED <<stage, prompt, events, diag>>

\* main after the collector: the search prompt is built and Retrieve invoked
CallRetrieve ==
    /\ pc = "main"
    /\ Invoke(stage_of_call(1), search_prompt(user_reqs))
    /\ UNCHANGED <<variant, environ, loaded, exit_status, collector_vars, request,
                   result, main_vars>>

\* the loop body starts: one request goes to the backend
SendRequest ==
    /\ pc = "loop"
    /\ attempt < max_retries
    /\ request' = [stage |-> stage, tools |-> tools_of(variant, stage),
                   prompt |-> prompt, attempt |-> attempt]
    /\ nreq' = nreq + 1
    /\ pc' = "request"
    /\ UNCHANGED <<variant, environ, loaded, exit_status, collector_vars, stage,
                   attempt, waits, response, error_str, prompt, result,
                   events, diag, main_vars>>

\* the request succeeds: the text is extracted and returned
Respond ==
    /\ pc = "request"
    /\ \E o \in Outcomes(variant) :
         /\ response' = o[1]
         /\ Return(o[2])
    /\ UNCHANGED <<variant, environ, loaded, exit_status, collector_vars, stage,
                   attempt, nreq, waits, request, error_str, prompt, diag,
                   main_vars>>

\* the request raises (also while its events are read: the text read so far
\* is dropped, the next attempt rebuilds full_response): a transient error
\* is waited out, any other error is printed and the stage returns ""
Raise ==
    /\ pc = "request"
    /\ \E e \in Errors :
         /\ error_str' = e
         /\ IF classify(variant, e) = "transient"
            THEN /\ waits' = Append(waits, wait_time(attempt))
                 /\ pc' = "sleep"
                 /\ UNCHANGED <<result, events, diag>>
            ELSE /\ diag' = classify(variant, e)
                 /\ Return("")
                 /\ UNCHANGED waits
    /\ UNCHANGED <<variant, environ, loaded, exit_status, collector_vars, stage,
                   attempt, nreq, request, response, prompt, main_vars>>

\* variation: the loop retries without counting the attempt (`while True`)
Wake_same_attempt ==
    /\ pc = "sleep"
    /\ error_str' = NoError
    /\ pc' = "loop"
    /\ UNCHANGED <<variant, environ, loaded, exit_status, collector_vars, stage, nreq,
                   attempt, waits, request, response, prompt, result, events,
                   diag, main_vars>>

\* time.sleep returns; `continue` takes the loop to the next attempt
Wake ==
    /\ pc = "sleep"
    /\ attempt' = attempt + 1
    /\ error_str' = NoError
    /\ pc' = "loop"
    /\ UNCHANGED <<variant, environ, loaded, exit_status, collector_vars, stage, nreq,
                   waits, request, response, prompt, result, events, diag,
                   main_vars>>

\* range(max_retries) is used up: the failure is printed, "" returned
Exhausted ==
    /\ pc = "loop"
    /\ attempt >= max_retries
    /\ diag' = "retries_exhausted"
    /\ Return("")
    /\ UNCHANGED <<variant, environ, loaded, exit_status, collector_vars, stage,
                   attempt, nreq, waits, request, response, error_str, prompt,
                   main_vars>>

\* main takes Retrieve's result: it returns on an aborting result, else the
\* scoring prompt is built from it and Score invoked
AfterRetrieve ==
    /\ pc = "returned" /\ stage = stage_of_call(1)
    /\ data_out' = result
    /\ IF aborts(variant, "Retrieve", result)
       THEN Finish
       ELSE /\ Invoke(stage_of_call(2), scoring_prompt(user_reqs, result))
            /\ UNCHANGED exit_status
    /\ UNCHANGED <<variant, environ, loaded, collector_vars, request, result,
                   score_out, final_out, final_printed>>

\* main takes Score's result: it returns on an aborting result, else the
\* ranking prompt is built from it and Rank invoked
AfterScore ==
    /\ pc = "returned" /\ stage = stage_of_call(2)
    /\ score_out' = result
    /\ IF aborts(variant, "Score", result)
       THEN Finish
       ELSE /\ Invoke(stage_of_call(3), ranking_prompt(result))
            /\ UNCHANGED exit_status
    /\ UNCHANGED <<variant, environ, loaded, collector_vars, request, result,
                   data_out, final_out, final_printed>>

\* variation: main returns without the final block when Rank failed
AfterRank_gated ==
    /\ pc = "returned" /\ stage = stage_of_call(3)
    /\ final_out' = result
    /\ final_printed' = Truthy(result)
    /\ Finish
    /\ UNCHANGED <<variant, environ, loaded, collector_vars, request, result,
                   data_out, score_out>>

\* main takes Rank's result, prints the final block and ends
AfterRank ==
    /\ pc = "returned" /\ stage = stage_of_call(3)
    /\ final_out' = result
    /\ final_printed' = TRUE
    /\ Finish
    /\ UNCHANGED <<variant, environ, loaded, collector_vars, request, result,
                   data_out, score_out>>

Next ==
    \/ Startup
    \/ LoadBackend
    \/ ReadChoice
    \/ ReadField
    \/ CallRetrieve
    \/ SendRequest
    \/ Respond
    \/ Raise
    \/ Wake
    \/ Exhausted
    \/ AfterRetrieve
    \/ AfterScore
    \/ AfterRank

Spec == Init /\ [][Next]_vars

\* the steps main and the stage calls take once the requirements are there:
\* the program is sequential, every backend request returns or raises and
\* every time.sleep returns, so a step that can be taken is taken
PipelineStep ==
    \/ CallRetrieve \/ SendRequest \/ Respond \/ Raise \/ Wake \/ Exhausted
    \/ AfterRetrieve \/ AfterScore \/ AfterRank

FairSpec == Spec /\ WF_vars(PipelineStep)

-----------------------------------------------------------------------------
(* Properties *)

\* the result Retrieve / Score returned to main, Unset while there is none
RetrieveResult ==
    IF data_out # Unset THEN data_out
    ELSE IF pc = "returned" /\ stage = "Retrieve" THEN result
    ELSE Unset

ScoreResult ==
    IF score_out # Unset THEN score_out
    ELSE IF pc = "returned" /\ stage = "Score" THEN result
    ELSE Unset

Invoked(s) == \E i \in 1..Len(events) : events[i] = <<"invoke", s>>

InStage == pc \in {"loop", "request", "sleep"}

FullRun ==
    << <<"invoke", "Retrieve">>, <<"return", "Retrieve">>,
       <<"invoke", "Score">>, <<"return", "Score">>,
       <<"invoke", "Rank">>, <<"return", "Rank">> >>

\* C1: in both pipelines the stage invocations and returns of a run form a
\* prefix of Retrieve, Score, Rank, each invoked once and returned before
\* the next is invoked; a request in flight belongs to the one stage that
\* has been invoked and has not returned.
C1_StageOrder ==
    /\ Len(events) <= Len(FullRun)
    /\ events = SubSeq(FullRun, 1, Len(events))
    /\ InStage => /\ events # << >>
                  /\ events[Len(events)] = <<"invoke", stage>>
    /\ pc = "request" => request.stage = stage
    /\ ~InStage => Len(events) % 2 = 0

C1_Witness == pc = "exit" /\ events = FullRun

\* C2: in the ADK pipeline, once Retrieve has returned the empty string no
\* Score or Rank stage is invoked and no request is made for them.
C2_EmptyRetrieveAborts ==
    (variant = "adk" /\ RetrieveResult = "") =>
        /\ ~Invoked("Score") /\ ~Invoked("Rank")
        /\ request.stage = "Retrieve"
        /\ pc \in {"returned", "exit"}

C2_Witness ==
    variant = "adk" /\ data_out = "" /\ pc = "exit" /\ exit_status = 0

\* C3 (as claimed): in the direct pipeline, once the retrieval step has
\* returned the empty string neither scoring nor ranking is invoked.
C3_DirectEmptyRetrieveAborts ==
    (variant = "direct" /\ RetrieveResult = "") =>
        ~Invoked("Score") /\ ~Invoked("Rank")

Delays == <<10, 20, 40, 80, 160>>

\* C4: the waits of one stage call are 10, 20, 40, 80, 160 in this order,
\* one after each transient error, and the call issues at most 5 requests;
\* it declares the retries exhausted after exactly 5 requests and 5 waits.
C4_BackoffSchedule ==
    /\ Len(waits) <= Len(Delays)
    /\ waits = SubSeq(Delays, 1, Len(waits))
    /\ nreq <= 5
    /\ Len(waits) <= nreq
    /\ pc = "sleep" => Len(waits) = nreq
    /\ (pc = "returned" /\ diag = "retries_exhausted") =>
            nreq = 5 /\ waits = Delays

C4_Witness ==
    pc = "returned" /\ diag = "retries_exhausted" /\ waits = Delays /\ nreq = 5

\* all the text a response carries, None when it carries none
CarriedText(v, r) ==
    LET t == IF v = "adk" THEN join_events(r) ELSE response_text(r)
    IN  IF Truthy(t) THEN t ELSE None

\* C5: after k = 0..4 transient failures the loop issues a further request,
\* and when a request succeeds with non-empty text T the stage returns
\* exactly T, whatever the number of failures before it.
C5_RetryTransparency ==
    [][ /\ (pc = "loop" /\ Len(waits) <= 4) => pc' = "request"
        /\ (pc = "request" /\ pc' = "returned" /\ response' # NoResponse
              /\ CarriedText(variant, response') # None)
             => result' = CarriedText(variant, response') ]_vars

C5_Witness ==
    /\ pc = "returned" /\ Len(waits) = 4 /\ nreq = 5
    /\ response # NoResponse
    /\ result = "a"

\* C6 (as claimed): a stage call returns the empty string only after an
\* error that is not transient or after 5 requests that all raised
\* transient errors.
C6_EmptyOnlyOnFailure ==
    (pc = "returned" /\ result = "") =>
        \/ diag \in {"model_missing", "other"}
        \/ diag = "retries_exhausted" /\ nreq = 5

MissingModel(e) == e # NoError /\ "404" \in e /\ "not found" \in e
RateLimited(e) == e # NoError /\ ("429" \in e \/ "RESOURCE_EXHAUSTED" \in e)

\* C7 (as claimed): in the ADK pipeline a missing-model error (404 and
\* 'not found', read here as carrying no rate-limit marker) is never
\* retried and the process ends with a non-zero exit status.
C7_MissingModelFatal ==
    variant = "adk" =>
        /\ (MissingModel(error_str) /\ ~RateLimited(error_str)) => pc # "sleep"
        /\ (pc = "exit" /\ diag = "model_missing") => exit_status = 1

\* C7 (amended): in the ADK pipeline an error carrying 404 and 'not found'
\* and no rate-limit marker is reported and not retried: the stage returns
\* the empty string at once, and the run then ends with exit status 0, with
\* no further stage invoked.
C7_MissingModelReported ==
    variant = "adk" =>
        /\ (MissingModel(error_str) /\ ~RateLimited(error_str)) =>
              /\ pc = "returned"
              /\ result = ""
              /\ diag = "model_missing"
        /\ (pc = "exit" /\ diag = "model_missing") =>
              /\ exit_status = 0
              /\ result = ""
              /\ events[Len(events)] = <<"return", stage>>

C7_Witness ==
    /\ variant = "adk" /\ pc = "exit" /\ diag = "model_missing"
    /\ stage = "Score" /\ exit_status = 0

\* a part that bears text
BearsText(part) == Truthy(text_of(part))

HasTextPart(r) ==
    \E i \in 1..Len(r) : \E j \in 1..Len(r[i]) : BearsText(r[i][j])

NoResponseOf(v) == IF v = "adk" THEN NO_RESPONSE_adk ELSE NO_RESPONSE_direct

\* C8 (as claimed): a successful request whose response carries no
\* text-bearing part makes the stage return the non-empty sentinel, and one
\* that carries text makes it return the text parts joined in order.
C8_SentinelOrText ==
    (pc = "returned" /\ response # NoResponse) =>
        IF HasTextPart(response)
        THEN result = join_events(response)
        ELSE result = NoResponseOf(variant) /\ result # ""

\* C9: in the ADK pipeline a stage that returned the empty string is the
\* last stage invoked: after an empty Score result Rank is never invoked
\* and nothing is printed as final, and no prompt embeds an empty result.
C9_FailureAbortsRest ==
    variant = "adk" =>
        /\ ScoreResult = "" =>
              /\ ~Invoked("Rank")
              /\ ~final_printed
              /\ pc \in {"returned", "exit"}
        /\ (pc = "exit" /\ result = "") =>
              events[Len(events)] = <<"return", stage>>
        /\ (InStage /\ stage \in {"Score", "Rank"}) => prompt.candidates # ""

C9_Witness ==
    /\ variant = "adk" /\ pc = "exit" /\ score_out = ""
    /\ Truthy(data_out) /\ exit_status = 0

PlayerKeys == {"type", "position", "age_range", "experience", "style"}

\* the collector has returned for 'player' typed at the first prompt
PlayerCollected ==
    /\ user_reqs # EmptyMap
    /\ invalid = 0
    /\ supplied[1] = player

\* C10 (as claimed): for 'player' and four answers the collector asks five
\* prompts and returns exactly the player keys, each field holding the
\* literal text supplied.
C10_PlayerLiteral ==
    PlayerCollected =>
        /\ prompts = 5
        /\ DOMAIN user_reqs = PlayerKeys
        /\ user_reqs["type"] = player
        /\ user_reqs["position"] = supplied[2]
        /\ user_reqs["age_range"] = supplied[3]
        /\ user_reqs["experience"] = supplied[4]
        /\ user_reqs["style"] = supplied[5]

\* C10 (amended): for 'player' and four answers the collector asks five
\* prompts and returns exactly the player keys, each field holding the
\* text supplied with its leading and trailing whitespace removed.
C10_PlayerStripped ==
    PlayerCollected =>
        /\ prompts = 5
        /\ Len(supplied) = 5
        /\ DOMAIN user_reqs = PlayerKeys
        /\ user_reqs["type"] = player
        /\ user_reqs["position"] = rstrip(lstrip(supplied[2]))
        /\ user_reqs["age_range"] = rstrip(lstrip(supplied[3]))
        /\ user_reqs["experience"] = rstrip(lstrip(supplied[4]))
        /\ user_reqs["style"] = rstrip(lstrip(supplied[5]))

C10_Witness ==
    /\ PlayerCollected
    /\ pc = "main"
    /\ supplied[2] = <<"F", "w">>
    /\ supplied[3] = <<" ", "2", "0", " ", "2", "5", "\t">>
    /\ user_reqs["age_range"] = <<"2", "0", " ", "2", "5">>

-----------------------------------------------------------------------------
CoachKeys == {"type", "style", "experience", "age_range", "focus"}

\* C11: the mapping football_system_adk's collector returns has, for 'coach',
\* exactly the keys type, style, experience, age_range and focus, and for
\* 'player' exactly the keys type, position, age_range, experience and
\* style: no key is missing and none is extra.
C11_KeySets ==
    (variant = "adk" /\ user_reqs # EmptyMap) =>
        /\ user_reqs["type"] \in Tokens
        /\ user_reqs["type"] = coach => DOMAIN user_reqs = CoachKeys
        /\ user_reqs["type"] = player => DOMAIN user_reqs = PlayerKeys

C11_Witness ==
    /\ variant = "adk" /\ pc = "main"
    /\ supplied[1] = coach /\ Len(supplied) = 5
    /\ DOMAIN user_reqs = CoachKeys

-----------------------------------------------------------------------------
\* input() raised EOFError while the discriminant was being asked for
EofAtDiscriminant == answer = EOF /\ supplied = << >>

\* C12: when end-of-input meets the discriminant prompt, at the first prompt
\* or after rejected answers, the process ends with a non-zero exit status,
\* no further prompt is issued and no pipeline stage is invoked.
C12_EofAtDiscriminant ==
    /\ [](EofAtDiscriminant =>
            /\ pc = "exit" /\ exit_status = 1
            /\ events = << >> /\ stage = "none" /\ nreq = 0)
    /\ [][EofAtDiscriminant => prompts' = prompts]_vars

C12_Witness ==
    /\ EofAtDiscriminant /\ pc = "exit"
    /\ invalid > 0 /\ prompts = invalid + 1

-----------------------------------------------------------------------------
\* the last answer to the discriminant prompt was a line holding nothing but
\* whitespace (input was still available)
EmptyDiscriminant ==
    /\ supplied = << >>
    /\ answer \notin {NoLine, EOF}
    /\ rstrip(lstrip(answer)) = << >>

\* C13: in football_system_adk's collector an empty (or whitespace-only)
\* answer to the discriminant prompt ends the process with a non-zero exit
\* status, as end-of-input does.
C13_EmptyDiscriminantExits ==
    (variant = "adk" /\ EmptyDiscriminant) => (pc = "exit" /\ exit_status = 1)

-----------------------------------------------------------------------------
\* the discriminant has been accepted (the collector is in Valid)
DiscriminantValid == Len(supplied) >= 1

\* a line with its surrounding whitespace removed and its letters lowercased
Normalised(line) == lower(rstrip(lstrip(line)))

\* C14 as stated: the discriminant is accepted only when the entered line
\* is exactly 'player' or 'coach'; a line differing in letter case or
\* carrying surrounding whitespace is not accepted.
C14_ExactMatch == DiscriminantValid => supplied[1] \in Tokens

\* C14, amended: the discriminant is accepted exactly when the entered line,
\* stripped and lowercased, is 'player' or 'coach'; a line left in Prompting
\* is never one of those; the stored type is that token.
C14_NormalisedMatch ==
    /\ DiscriminantValid =>
            /\ Normalised(supplied[1]) \in Tokens
            /\ requirements["type"] = Normalised(supplied[1])
    /\ requirements # EmptyMap => requirements["type"] \in Tokens
    /\ (pc = "choice" /\ answer \notin {NoLine, EOF}) =>
            Normalised(answer) \notin Tokens

C14_Witness ==
    /\ pc = "fields"
    /\ supplied = << <<" ", "P", "l", "a", "y", "e", "r", " ">> >>
    /\ requirements["type"] = player

-----------------------------------------------------------------------------
\* C15: the search tool goes with Retrieve and with no other stage: every
\* request issued for Retrieve, first or retried, carries it, and every
\* request issued for Score or Rank, first or retried, carries no tool.
C15_SearchOnlyForRetrieve ==
    request # EmptyMap =>
        /\ request.stage \in Stages
        /\ pc = "request" => request.stage = stage
        /\ request.stage = "Retrieve" => request.tools = {"google_search"}
        /\ request.stage \in {"Score", "Rank"} => request.tools = {}

C15_Witness ==
    /\ pc = "request" /\ stage = "Score" /\ nreq = 3
    /\ request.stage = "Score" /\ request.tools = {}

-----------------------------------------------------------------------------
\* a variable of the environment holds a value
Holds(env, name) == name \in DOMAIN env /\ env[name] # << >>

\* C16: the key is GOOGLE_API_KEY's value, or GEMINI_API_KEY's when
\* GOOGLE_API_KEY holds none.  When neither holds a value the process ends
\* with status 1 before any prompt or backend request; otherwise startup
\* goes on with GOOGLE_API_KEY set to the key with its surrounding
\* whitespace removed and GEMINI_API_KEY removed from the environment.
C16_KeyStartup ==
    /\ [][pc = "startup" =>
            IF Holds(environ, "GOOGLE_API_KEY")
            THEN /\ pc' # "exit" /\ exit_status' = Unset
                 /\ environ' = ("GOOGLE_API_KEY" :>
                                    rstrip(lstrip(environ["GOOGLE_API_KEY"])))
            ELSE IF Holds(environ, "GEMINI_API_KEY")
            THEN /\ pc' # "exit" /\ exit_status' = Unset
                 /\ environ' = ("GOOGLE_API_KEY" :>
                                    rstrip(lstrip(environ["GEMINI_API_KEY"])))
            ELSE /\ pc' = "exit" /\ exit_status' = 1
                 /\ prompts' = 0 /\ nreq' = 0 /\ events' = << >>]_vars
    /\ []((prompts > 0 \/ events # << >>) =>
            (DOMAIN environ = {"GOOGLE_API_KEY"} /\ environ["GOOGLE_API_KEY"] # << >>))

C16_Witness ==
    /\ pc = "load"
    /\ environ = ("GOOGLE_API_KEY" :> <<"k">>)

-----------------------------------------------------------------------------
\* C17: a wait is taken before a retry, so when a stage call has returned,
\* the waits it took are as many as its retries: one less than the requests
\* it made, also when it returned because the retries were used up.
C17_WaitsAreRetries ==
    (pc = "returned" /\ nreq > 0) => Len(waits) = nreq - 1

-----------------------------------------------------------------------------
\* neither key variable held a value when the process started (the
\* environment is left as it was when startup ends the process)
CredentialAbsent ==
    ~Holds(environ, "GOOGLE_API_KEY") /\ ~Holds(environ, "GEMINI_API_KEY")

\* a collector prompt, the discriminant's or a field's, met end-of-input
InputMissing == answer = EOF

\* C18 as stated: football_system_adk ends with status 1 exactly when the
\* credential is absent or a collector prompt meets end-of-input (the
\* collector aborts), and with status 0 in every other run.
C18_ExitStatus ==
    (variant = "adk" /\ pc = "exit") =>
        /\ exit_status \in {0, 1}
        /\ exit_status = 1 <=> (CredentialAbsent \/ InputMissing)

\* C18, amended: status 1 exactly when the credential is absent, the
\* google.adk modules cannot be imported, or a collector prompt meets
\* end-of-input; status 0 in every other run, stage failures included.
C18_ExitStatusWithImport ==
    (variant = "adk" /\ pc = "exit") =>
        /\ exit_status \in {0, 1}
        /\ exit_status = 1 <=>
                (CredentialAbsent \/ loaded = "failed" \/ InputMissing)

C18_Witness ==
    /\ variant = "adk" /\ pc = "exit" /\ exit_status = 0
    /\ loaded = "yes" /\ answer # EOF
    /\ diag = "retries_exhausted" /\ result = "" /\ ~final_printed

-----------------------------------------------------------------------------
\* the stage calls made so far in this run
Calls == Cardinality({ i \in 1..Len(events) : events[i][1] = "invoke" })

\* C19: the retry state belongs to one stage call: whatever the calls before
\* it consumed, a stage call starts with attempt 0, no request made and no
\* wait taken, and its first wait is 10 seconds; each call makes at most 5
\* requests, and with no more than three calls a run makes at most 15.
C19_RetryStateLocal ==
    /\ [][stage' # stage =>
            (pc' = "loop" /\ attempt' = 0 /\ nreq' = 0 /\ waits' = << >>)]_vars
    /\ []((pc = "sleep" /\ nreq = 1) => (attempt = 0 /\ waits = <<10>>))
    /\ [](nreq <= 5)
    /\ [](Calls <= 3 /\ 5 * Calls <= 15)

\* Score starts afresh right after Retrieve used four retries
C19_Witness ==
    /\ stage = "Score" /\ pc = "loop"
    /\ request.stage = "Retrieve" /\ request.attempt = 4
    /\ attempt = 0 /\ nreq = 0 /\ waits = << >>

-----------------------------------------------------------------------------
\* stage s has returned to main
Returned(s) == \E i \in 1..Len(events) : events[i] = <<"return", s>>

\* C20: a stage's prompt is built once the stage before it has returned, and
\* embeds the text that stage returned, whole and unchanged: the Score
\* prompt carries the requirements mapping and Retrieve's text, the Rank
\* prompt Score's text, and the final text printed is Rank's.
C20_PromptsEmbedResults ==
    /\ [][(pc = "returned" /\ stage = "Retrieve" /\ stage' # stage) =>
            /\ stage' = "Score"
            /\ prompt'.requirements = user_reqs
            /\ prompt'.candidates = result]_vars
    /\ [][(pc = "returned" /\ stage = "Score" /\ stage' # stage) =>
            /\ stage' = "Rank"
            /\ prompt'.candidates = result]_vars
    /\ [][(pc = "returned" /\ stage = "Rank") =>
            (final_printed' /\ final_out' = result)]_vars
    /\ [](stage = "Score" =>
            (Returned("Retrieve") /\ prompt.candidates = data_out))
    /\ [](stage = "Rank" =>
            (Returned("Score") /\ prompt.candidates = score_out))
    /\ [](pc = "request" => request.prompt = prompt)
    /\ [](final_printed => (Returned("Rank") /\ final_out = result))

C20_Witness ==
    /\ pc = "exit" /\ final_printed
    /\ data_out = "a" /\ score_out = NoResponseOf(variant) /\ final_out = "a"
    /\ prompt.candidates = score_out

-----------------------------------------------------------------------------
\* C21: the requirements mapping is made once, by the collector, and stays
\* as it is: no stage call, retry, wait or prompt-building step adds,
\* removes or alters a key or a value, and the mapping in the Score prompt
\* is the mapping the collector returned.
C21_RequirementsImmutable ==
    /\ [][user_reqs # EmptyMap =>
            (user_reqs' = user_reqs /\ requirements' = requirements)]_vars
    /\ [](user_reqs # EmptyMap => user_reqs = requirements)
    /\ [](stage = "Score" => prompt.requirements = requirements)
    /\ []((pc = "request" /\ stage = "Score") =>
            request.prompt.requirements = requirements)

C21_Witness ==
    /\ stage = "Score" /\ pc = "request" /\ nreq = 3 /\ Len(waits) = 2
    /\ DOMAIN user_reqs = CoachKeys
    /\ request.prompt.requirements = user_reqs

-----------------------------------------------------------------------------
\* input() raised EOFError at one of the four field prompts
EofAtField == answer = EOF /\ DiscriminantValid

\* C22: when end-of-input meets one of the four field prompts, the process
\* ends with status 1, the partly filled mapping is not returned to main,
\* and no pipeline stage is invoked.
C22_EofAtField ==
    /\ [](EofAtField =>
            /\ pc = "exit" /\ exit_status = 1
            /\ user_reqs = EmptyMap
            /\ events = << >> /\ stage = "none" /\ nreq = 0)
    /\ [][EofAtField => prompts' = prompts]_vars

C22_Witness ==
    /\ EofAtField /\ pc = "exit"
    /\ Len(supplied) = 3 /\ prompts = 4
    /\ Cardinality(DOMAIN requirements) = 3

-----------------------------------------------------------------------------
\* every request the returned stage call made met a transient error
OnlyTransientErrors == pc = "returned" /\ nreq > 0 /\ Len(waits) = nreq

\* main has the requirements and has not ended
InPipeline == pc \in {"main", "loop", "request", "sleep", "returned"}

\* the most steps the active stage call can still take before it returns:
\* three per attempt left (request, wait, back to the loop head), one to
\* leave the loop
CallStepsLeft ==
    CASE pc = "loop" -> 3 * (5 - attempt) + 1
      [] pc = "request" -> 3 * (5 - attempt)
      [] pc = "sleep" -> 3 * (5 - attempt) - 1
      [] OTHER -> 0

\* C23: every stage call ends: with each backend request returning or
\* raising, every step of the call brings its return nearer, and it returns
\* after at most 5 requests; a call whose requests all met transient errors
\* returns only when the 5 are used up; so a run that has its requirements
\* reaches its end, by the final output or by an abort, and stays there.
C23_Termination ==
    /\ [](nreq <= 5 /\ CallStepsLeft >= 0)
    /\ [][InStage =>
            (CallStepsLeft' < CallStepsLeft /\ (InStage' \/ pc' = "returned"))]_vars
    /\ [](OnlyTransientErrors =>
            (nreq = 5 /\ diag = "retries_exhausted" /\ result = ""))
    /\ <>[]~InPipeline

C23_Witness ==
    /\ pc = "exit" /\ exit_status = 0 /\ stage = "Rank"
    /\ diag = "retries_exhausted" /\ final_printed /\ final_out = ""

-----------------------------------------------------------------------------
\* main (adk) holds the result of Retrieve or Score and is about to act on it
AtGate == variant = "adk" /\ pc = "returned" /\ stage \in {"Retrieve", "Score"}

\* C24: for football_system_adk's abort gate the 'no response' sentinel is a
\* success: when Retrieve or Score returns it, the next stage is invoked
\* with the sentinel embedded as its candidate data; main aborts on the
\* empty string and on nothing else.
C24_SentinelPassesGate ==
    /\ [][(AtGate /\ result = NO_RESPONSE_adk) =>
            /\ pc' = "loop"
            /\ stage' = (IF stage = "Retrieve" THEN "Score" ELSE "Rank")
            /\ prompt'.candidates = NO_RESPONSE_adk]_vars
    /\ [][AtGate => (pc' = "exit" <=> result = "")]_vars
    /\ []((variant = "adk" /\ response # NoResponse /\ ~HasTextPart(response)
              /\ pc = "returned") => result = NO_RESPONSE_adk)

C24_Witness ==
    /\ variant = "adk" /\ stage = "Score" /\ pc = "request"
    /\ data_out = NO_RESPONSE_adk
    /\ request.prompt.candidates = NO_RESPONSE_adk

-----------------------------------------------------------------------------
\* C25: football_system_adk's main prints the FINAL RECOMMENDATIONS block
\* if and only if Rank was invoked: a run aborted after Retrieve or Score
\* ends without the block, and a run whose Rank call failed (returned the
\* empty string) ends with the block printed, its content empty.
C25_FinalBlockIffRank ==
    variant = "adk" =>
        /\ final_printed => (Invoked("Rank") /\ Returned("Rank"))
        /\ pc = "exit" => (final_printed <=> Invoked("Rank"))
        /\ (pc = "exit" /\ events # << >> /\ ~Invoked("Rank")) =>
                (~final_printed /\ final_out = Unset /\ result = "")
        /\ (pc = "exit" /\ Invoked("Rank")) => final_out = result

C25_Witness ==
    /\ variant = "adk" /\ pc = "exit" /\ Invoked("Rank")
    /\ final_printed /\ final_out = "" /\ diag = "other"

-----------------------------------------------------------------------------
\* an error is being handled, or was the last thing the stage call met
ErrorAtHand == error_str # NoError

\* C26: every error a backend request raises is handled as exactly one of
\* transient (waited out), model-missing and unclassified (both reported,
\* the call returning the empty string at once); an error carrying a
\* 429 / RESOURCE_EXHAUSTED marker is transient also when it carries 404 and
\* 'not found'; a wait, and a request after the first, follow a transient
\* error and nothing else.
C26_Classification ==
    /\ [](ErrorAtHand =>
            /\ pc \in {"sleep", "returned"}
            /\ RateLimited(error_str) =>
                  (pc = "sleep" /\ diag = "none"
                     /\ waits[Len(waits)] = 10 * 2 ^ attempt)
            /\ ~RateLimited(error_str) =>
                  /\ pc = "returned" /\ result = ""
                  /\ diag \in {"model_missing", "other"}
                  /\ diag = "model_missing" <=>
                        (variant = "adk" /\ MissingModel(error_str)))
    /\ [][pc' = "sleep" => (pc = "request" /\ RateLimited(error_str'))]_vars
    /\ [][(pc' = "request" /\ nreq' > 1) =>
            (pc = "loop" /\ Len(waits) = nreq /\ response = NoResponse)]_vars

C26_Witness ==
    /\ pc = "sleep" /\ attempt = 1
    /\ error_str = {"429", "404", "not found"}
    /\ waits = <<10, 20>>

=============================================================================
